---- MODULE Spec2Model ----
(***************************************************************************)
(* Yggdrasil (Frank_Draft5.py): the nested Genre -> Artist -> Album ->     *)
(* Song dictionary, its JSON save / load, the random samplers, the         *)
(* Spotify-driven add_song_dynamic and the enter_bragi session loop.       *)
(*                                                                         *)
(* Python values are tagged records [t, v]:                                *)
(*   dict  v = sequence of <<key, value>> pairs in insertion order         *)
(*   list  v = sequence of values                                          *)
(*   int   v = an integer,  str  v = a string,  None                       *)
(* The file yggdrasil.json is a sequence of JSON tokens.                   *)
(***************************************************************************)
EXTENDS Integers, Sequences, FiniteSets, TLC

(***************************************************************************)
(* Bounds of the model.                                                    *)
(***************************************************************************)
MaxAdds == 2          \* add_song calls per behaviour

(***************************************************************************)
(* Python values.                                                          *)
(***************************************************************************)
None == [t |-> "None", v |-> "None"]
PyStr(s) == [t |-> "str", v |-> s]
PyInt(n) == [t |-> "int", v |-> n]
PyDict(kv) == [t |-> "dict", v |-> kv]
PyList(xs) == [t |-> "list", v |-> xs]
EmptyDict == PyDict(<<>>)

IsDict(x) == x.t = "dict"

\* bool(x): the truth value Python gives a value (`if not Yggdrasil`, `metadata or {}`)
Truthy(x) ==
    CASE x.t = "None" -> FALSE
      [] x.t = "int"  -> x.v # 0
      [] x.t = "str"  -> x.v # ""
      [] OTHER        -> Len(x.v) > 0

\* list(d.keys()): the keys of a dict in insertion order
KeyList(d) == [i \in 1..Len(d.v) |-> d.v[i][1]]
KeySet(d) == { d.v[i][1] : i \in 1..Len(d.v) }

\* k in d, for a dict d
HasKey(d, k) == \E i \in 1..Len(d.v) : d.v[i][1] = k

\* d[k], for a dict d that has k
DictGet(d, k) == d.v[CHOOSE i \in 1..Len(d.v) : d.v[i][1] = k][2]

\* DictSet with the slip of adding the pair without looking for the key
DictSetAppend(d, k, x) == PyDict(Append(d.v, <<k, x>>))

\* d[k] = x: an existing key keeps its position, a new key goes last
DictSet(d, k, x) ==
    IF HasKey(d, k)
    THEN PyDict([i \in 1..Len(d.v) |-> IF d.v[i][1] = k THEN <<k, x>> ELSE d.v[i]])
    ELSE PyDict(Append(d.v, <<k, x>>))

(***************************************************************************)
(* Exceptions: the type, the argument it names and the frame that raised.  *)
(***************************************************************************)
NoExc == [exc |-> "none", arg |-> "", site |-> ""]
Exc(e, a, s) == [exc |-> e, arg |-> a, site |-> s]

(***************************************************************************)
(* json.dump(Yggdrasil, f): the token text of a value.                     *)
(***************************************************************************)
P(c) == [k |-> "p", v |-> c]
StrTok(s) == [k |-> "s", v |-> s]
NumTok(n) == [k |-> "n", v |-> n]
NullTok == [k |-> "null", v |-> "null"]

RECURSIVE Encode(_)
RECURSIVE EncodeMembers(_, _)
RECURSIVE EncodeItems(_, _)
EncodeMembers(kv, i) ==
    IF i > Len(kv) THEN <<>>
    ELSE (IF i > 1 THEN <<P(",")>> ELSE <<>>)
         \o <<StrTok(kv[i][1]), P(":")>> \o Encode(kv[i][2])
         \o EncodeMembers(kv, i + 1)
EncodeItems(xs, i) ==
    IF i > Len(xs) THEN <<>>
    ELSE (IF i > 1 THEN <<P(",")>> ELSE <<>>) \o Encode(xs[i]) \o EncodeItems(xs, i + 1)
Encode(x) ==
    CASE x.t = "dict" -> <<P("{")>> \o EncodeMembers(x.v, 1) \o <<P("}")>>
      [] x.t = "list" -> <<P("[")>> \o EncodeItems(x.v, 1) \o <<P("]")>>
      [] x.t = "str"  -> <<StrTok(x.v)>>
      [] x.t = "int"  -> <<NumTok(x.v)>>
      [] OTHER        -> <<NullTok>>

(***************************************************************************)
(* json.load(f): parse a token text; ok = FALSE is json.JSONDecodeError.   *)
(***************************************************************************)
ParseFail == [ok |-> FALSE, val |-> None, nxt |-> 0]
ParseOk(x, n) == [ok |-> TRUE, val |-> x, nxt |-> n]
IsP(ts, i, c) == i <= Len(ts) /\ ts[i].k = "p" /\ ts[i].v = c

RECURSIVE ParseValue(_, _)
RECURSIVE ParseMembers(_, _, _)
RECURSIVE ParseItems(_, _, _)
\* after "{" or ",": a string key, ":", a value, then "," or "}"
ParseMembers(ts, i, acc) ==
    IF i + 1 <= Len(ts) /\ ts[i].k = "s" /\ IsP(ts, i + 1, ":")
    THEN LET r == ParseValue(ts, i + 2)
         IN IF ~r.ok THEN ParseFail
            ELSE LET acc2 == DictSet(acc, ts[i].v, r.val)
                 IN IF IsP(ts, r.nxt, ",") THEN ParseMembers(ts, r.nxt + 1, acc2)
                    ELSE IF IsP(ts, r.nxt, "}") THEN ParseOk(acc2, r.nxt + 1)
                    ELSE ParseFail
    ELSE ParseFail
ParseItems(ts, i, acc) ==
    LET r == ParseValue(ts, i)
    IN IF ~r.ok THEN ParseFail
       ELSE LET acc2 == Append(acc, r.val)
            IN IF IsP(ts, r.nxt, ",") THEN ParseItems(ts, r.nxt + 1, acc2)
               ELSE IF IsP(ts, r.nxt, "]") THEN ParseOk(PyList(acc2), r.nxt + 1)
               ELSE ParseFail
ParseValue(ts, i) ==
    IF i > Len(ts) THEN ParseFail
    ELSE CASE IsP(ts, i, "{") ->
                IF IsP(ts, i + 1, "}") THEN ParseOk(EmptyDict, i + 2)
                ELSE ParseMembers(ts, i + 1, EmptyDict)
           [] IsP(ts, i, "[") ->
                IF IsP(ts, i + 1, "]") THEN ParseOk(PyList(<<>>), i + 2)
                ELSE ParseItems(ts, i + 1, <<>>)
           [] ts[i].k = "s"    -> ParseOk(PyStr(ts[i].v), i + 1)
           [] ts[i].k = "n"    -> ParseOk(PyInt(ts[i].v), i + 1)
           [] ts[i].k = "null" -> ParseOk(None, i + 1)
           [] OTHER            -> ParseFail

\* the whole text must be one value ("Extra data" is a JSONDecodeError too)
Decode(ts) ==
    LET r == ParseValue(ts, 1)
    IN IF r.ok /\ r.nxt = Len(ts) + 1 THEN r ELSE ParseFail

(***************************************************************************)
(* Item access on an arbitrary Python value, as the interpreter does it.   *)
(* A result is [val, exc]; exc = NoExc when the expression evaluated.      *)
(* str nodes do not occur above the leaf records in any document the model *)
(* draws, so `k in x` for a str x (a substring test) is not needed.        *)
(***************************************************************************)
Res(x, e) == [val |-> x, exc |-> e]

\* k in x
Contains(x, k, site) ==
    CASE x.t = "dict" -> Res(HasKey(x, k), NoExc)
      [] x.t = "list" -> Res(\E i \in 1..Len(x.v) : x.v[i] = PyStr(k), NoExc)
      [] OTHER        -> Res(FALSE, Exc("TypeError", x.t, site))

\* GetItem with the slip of x.get(k, {}): a missing key gives an empty dict
GetItemDefault(x, k, site) ==
    CASE x.t = "dict" -> IF HasKey(x, k) THEN Res(DictGet(x, k), NoExc)
                         ELSE Res(EmptyDict, NoExc)
      [] OTHER        -> Res(None, Exc("TypeError", x.t, site))

\* x[k]
GetItem(x, k, site) ==
    CASE x.t = "dict" -> IF HasKey(x, k) THEN Res(DictGet(x, k), NoExc)
                         ELSE Res(None, Exc("KeyError", k, site))
      [] OTHER        -> Res(None, Exc("TypeError", x.t, site))

\* SetItem with the slip of x = {k: y}: the other keys of x are gone
SetItemAlone(x, k, y, site) ==
    CASE x.t = "dict" -> Res(PyDict(<< <<k, y>> >>), NoExc)
      [] OTHER        -> Res(x, Exc("TypeError", x.t, site))

\* x[k] = y
SetItem(x, k, y, site) ==
    CASE x.t = "dict" -> Res(DictSet(x, k, y), NoExc)
      [] OTHER        -> Res(x, Exc("TypeError", x.t, site))

\* Ensure with the slip of leaving the assignment out
EnsureNever(x, k, site) ==
    LET c == Contains(x, k, site)
    IN IF c.exc # NoExc THEN Res(x, c.exc) ELSE Res(x, NoExc)

\* Ensure with the slip of leaving the test out: x[k] = {} every time
EnsureAlways(x, k, site) == SetItem(x, k, EmptyDict, site)

\* if k not in x: x[k] = {}
Ensure(x, k, site) ==
    LET c == Contains(x, k, site)
    IN IF c.exc # NoExc THEN Res(x, c.exc)
       ELSE IF c.val THEN Res(x, NoExc)
       ELSE SetItem(x, k, EmptyDict, site)

\* an add_song that stores the leaf only for a truthy metadata ("if metadata:"
\* for the "metadata or {}" of line 42): None leaves the album without a song
add_song_skip_empty(Y, genre, artist, album, song_name, metadata) ==
    LET site == "add_song"
        e1 == Ensure(Y, genre, site)
        n1 == GetItem(e1.val, genre, site)
        e2 == Ensure(n1.val, artist, site)
        n2 == GetItem(e2.val, artist, site)
        e3 == Ensure(n2.val, album, site)
        n3 == GetItem(e3.val, album, site)
        s4 == IF Truthy(metadata) THEN SetItem(n3.val, song_name, metadata, site)
              ELSE Res(n3.val, NoExc)
        up3(x) == DictSet(e3.val, album, x)
        up2(x) == DictSet(e2.val, artist, x)
        up1(x) == DictSet(e1.val, genre, x)
    IN CASE e1.exc # NoExc -> Res(e1.val, e1.exc)
         [] n1.exc # NoExc -> Res(e1.val, n1.exc)
         [] e2.exc # NoExc -> Res(up1(e2.val), e2.exc)
         [] n2.exc # NoExc -> Res(up1(e2.val), n2.exc)
         [] e3.exc # NoExc -> Res(up1(up2(e3.val)), e3.exc)
         [] n3.exc # NoExc -> Res(up1(up2(e3.val)), n3.exc)
         [] OTHER          -> Res(up1(up2(up3(s4.val))), s4.exc)

(***************************************************************************)
(* add_song(genre, artist, album, song_name, metadata): the new value of   *)
(* Yggdrasil and the exception raised, if any.  The dicts are mutated in   *)
(* place, so what was created before an exception stays.                   *)
(***************************************************************************)
add_song(Y, genre, artist, album, song_name, metadata) ==
    LET site == "add_song"
        e1 == Ensure(Y, genre, site)                     \* lines 36-37
        n1 == GetItem(e1.val, genre, site)
        e2 == Ensure(n1.val, artist, site)               \* lines 38-39
        n2 == GetItem(e2.val, artist, site)
        e3 == Ensure(n2.val, album, site)                \* lines 40-41
        n3 == GetItem(e3.val, album, site)
        leaf == IF Truthy(metadata) THEN metadata ELSE EmptyDict
        s4 == SetItem(n3.val, song_name, leaf, site)     \* line 42
        up3(x) == DictSet(e3.val, album, x)
        up2(x) == DictSet(e2.val, artist, x)
        up1(x) == DictSet(e1.val, genre, x)
    IN CASE e1.exc # NoExc -> Res(e1.val, e1.exc)
         [] n1.exc # NoExc -> Res(e1.val, n1.exc)
         [] e2.exc # NoExc -> Res(up1(e2.val), e2.exc)
         [] n2.exc # NoExc -> Res(up1(e2.val), n2.exc)
         [] e3.exc # NoExc -> Res(up1(up2(e3.val)), e3.exc)
         [] n3.exc # NoExc -> Res(up1(up2(e3.val)), n3.exc)
         [] OTHER          -> Res(up1(up2(up3(s4.val))), s4.exc)

(***************************************************************************)
(* Yggdrasil[genre][artist][album][song]: the descent of lines 163-166 and *)
(* 176.  depth is the number of keys of path that are indexed.             *)
(***************************************************************************)
RECURSIVE Descend(_, _, _, _)
Descend(x, path, i, site) ==
    IF i > Len(path) THEN Res(x, NoExc)
    ELSE LET r == GetItem(x, path[i], site)
         IN IF r.exc # NoExc THEN r ELSE Descend(r.val, path, i + 1, site)

Lookup(Y, path, site) == Descend(Y, path, 1, site)

(***************************************************************************)
(* random.choice(list(node.keys())) for the node at a prefix of 0..3 keys  *)
(* (random_genre, random_artist, random_album, random_song).  The result   *)
(* is the set of keys the call can return, or the exception it raises.     *)
(***************************************************************************)
SamplerName(prefix) ==
    CASE Len(prefix) = 0 -> "random_genre"
      [] Len(prefix) = 1 -> "random_artist"
      [] Len(prefix) = 2 -> "random_album"
      [] OTHER           -> "random_song"

\* RandomChoices with the slip of sampling the genres at every level
RandomChoicesOfRoot(Y, prefix) ==
    IF IsDict(Y) /\ Len(Y.v) > 0 THEN [keys |-> KeySet(Y), exc |-> NoExc]
    ELSE [keys |-> {}, exc |-> Exc("IndexError", "", "random.choice")]

RandomChoices(Y, prefix) ==
    LET node == Descend(Y, prefix, 1, SamplerName(prefix))
    IN CASE node.exc # NoExc    -> [keys |-> {}, exc |-> node.exc]
         [] ~IsDict(node.val)   ->
              [keys |-> {}, exc |-> Exc("AttributeError", node.val.t, SamplerName(prefix))]
         [] Len(node.val.v) = 0 ->
              [keys |-> {}, exc |-> Exc("IndexError", "", "random.choice")]
         [] OTHER               -> [keys |-> KeySet(node.val), exc |-> NoExc]

(***************************************************************************)
(* The state of one run of Frank_Draft5.py.                                *)
(***************************************************************************)
VARIABLES
    Yggdrasil,   \* the global music tree (line 27), a Python value
    file,        \* yggdrasil.json: [exists, text]
    pc,          \* "imported": the module is imported and its caller calls add_song,
                 \*   the samplers, save_yggdrasil and load_yggdrasil in any order;
                 \* "boot", "loop", "cont", "exit": the positions of lines 207-214;
                 \* "dead": ended by an uncaught exception; "killed": ended from outside
    raised,      \* the exception the last call raised, or NoExc
    ret,         \* the value the last call returned
    last,        \* the last call: [op, path, case]
    adds         \* number of add_song calls so far

vars == <<Yggdrasil, file, pc, raised, ret, last, adds>>

(***************************************************************************)
(* The keys and records the callers draw from.                             *)
(***************************************************************************)
Genres == {"Rock", "Jazz"}
Artists == {"Queen", "Muse"}
Albums == {"Opera", "Absolution"}
Songs == {"Rhapsody", "Hysteria"}
\* the paths add_song is called with: one path and a sibling of it at the
\* song, the album, the artist and the genre level
Paths ==
    { <<"Rock", "Queen", "Opera", "Rhapsody">>,
      <<"Rock", "Queen", "Opera", "Hysteria">>,
      <<"Rock", "Queen", "Absolution", "Hysteria">>,
      <<"Rock", "Muse", "Absolution", "Hysteria">>,
      <<"Jazz", "Muse", "Absolution", "Hysteria">> }

Rec1 == PyDict(<< <<"duration_ms", PyInt(354000)>> >>)
\* the metadata argument of add_song: omitted (None) or a record
Metadatas == {None, Rec1}

NoFile == [exists |-> FALSE, text |-> <<>>]
FileOf(ts) == [exists |-> TRUE, text |-> ts]

\* a catalog saved by an earlier run
SampleTree == add_song(EmptyDict, "Rock", "Queen", "Opera", "Rhapsody", Rec1).val
SampleText == Encode(SampleTree)

\* what yggdrasil.json can hold when the program starts: nothing, an earlier
\* save, a cut-off earlier save, and well-formed JSON that is not a catalog
InitialFiles ==
    { NoFile,
      FileOf(SampleText),
      FileOf(SubSeq(SampleText, 1, Len(SampleText) - 1)),
      FileOf(Encode(PyList(<<>>))),
      FileOf(Encode(PyDict(<< <<"Rock", PyInt(5)>> >>))),
      FileOf(Encode(PyDict(<< <<"Rock", EmptyDict>> >>))) }

\* the record of a call: the function, the path it was about, the branch it
\* took, the path printed by lines 194-197, the text typed at line 89 and the
\* number of search results
CallFull(op, path, case, shown, token, found) ==
    [op |-> op, path |-> path, case |-> case, shown |-> shown, token |-> token,
     found |-> found, record |-> None]
Call(op, path, case) == CallFull(op, path, case, <<>>, "", 0)
\* a call of add_song with its metadata argument
CallAdd(path, case, metadata) == [Call("add_song", path, case) EXCEPT !.record = metadata]

Init ==
    /\ Yggdrasil = EmptyDict
    /\ file \in InitialFiles
    /\ pc \in {"imported", "boot"}
    /\ raised = NoExc
    /\ ret = None
    /\ last = Call("start", <<>>, "")
    /\ adds = 0

\* where control is after a call made at pc: an importing caller gets the
\* exception, the script of lines 207-214 dies of it
After(exc, next) ==
    IF pc = "imported" THEN "imported"
    ELSE IF exc # NoExc THEN "dead" ELSE next

(***************************************************************************)
(* add_song called by an importing caller.                                 *)
(***************************************************************************)
AddCase(Y, path, leaf) ==
    LET old == Lookup(Y, path, "")
    IN IF old.exc # NoExc THEN "new"
       ELSE IF old.val = leaf THEN "same" ELSE "overwrite"

AddSong ==
    /\ pc = "imported"
    /\ adds < MaxAdds
    /\ \E path \in Paths, m \in Metadatas :
         LET r == add_song(Yggdrasil, path[1], path[2], path[3], path[4], m)
         IN /\ Yggdrasil' = r.val
            /\ raised' = r.exc
            /\ last' = CallAdd(path,
                               AddCase(Yggdrasil, path, IF Truthy(m) THEN m ELSE EmptyDict),
                               m)
    /\ ret' = None
    /\ adds' = adds + 1
    /\ UNCHANGED <<file, pc>>

(***************************************************************************)
(* random_genre, random_artist, random_album, random_song called by an     *)
(* importing caller with any keys as arguments.                            *)
(***************************************************************************)
\* the arguments drawn: the first n keys of two of the paths add_song is
\* called with
SampledPaths ==
    { <<"Rock", "Queen", "Opera", "Rhapsody">>, <<"Jazz", "Muse", "Absolution", "Hysteria">> }
Prefixes(n) == { SubSeq(p, 1, n) : p \in SampledPaths }

Sample(n) ==
    /\ pc = "imported"
    /\ \E prefix \in Prefixes(n) :
         LET c == RandomChoices(Yggdrasil, prefix)
         IN /\ raised' = c.exc
            /\ IF c.exc # NoExc
               THEN /\ ret' = None
                    /\ last' = Call(SamplerName(prefix), prefix,
                                    IF c.exc.exc = "IndexError" THEN "empty" ELSE "error")
               ELSE /\ \E k \in c.keys : ret' = PyStr(k)
                    /\ last' = Call(SamplerName(prefix), prefix, "ok")
    /\ UNCHANGED <<Yggdrasil, file, pc, adds>>

RandomGenre == Sample(0)
RandomArtist == Sample(1)
RandomAlbum == Sample(2)
RandomSong == Sample(3)

(***************************************************************************)
(* save_yggdrasil().  open(filename, "w") empties the file, json.dump      *)
(* writes the text into it.  What the environment can do to one call:     *)
(*   ok          the whole text is written                                  *)
(*   open_fails  open raises OSError, the file is not touched              *)
(*   write_fails a write raises OSError after `cut` tokens                 *)
(*   killed      the process is ended from outside after `cut` tokens      *)
(***************************************************************************)
\* The cuts drawn: nothing written, and half of the text.
CutPoints(n) == {0, n \div 2}

SaveOutcomes(Y) ==
    { [kind |-> "ok", cut |-> 0], [kind |-> "open_fails", cut |-> 0] }
    \cup { [kind |-> k, cut |-> c] : k \in {"write_fails", "killed"},
                                     c \in CutPoints(Len(Encode(Y))) }

\* save_yggdrasil with the slip of opening the file with "a": the text is
\* written after what the file holds
save_yggdrasil_append(Y, f, o) ==
    LET text == Encode(Y)
    IN CASE o.kind = "ok" ->
              [file |-> FileOf(f.text \o text), exc |-> NoExc, killed |-> FALSE]
         [] o.kind = "open_fails" ->
              [file |-> f, exc |-> Exc("OSError", "", "open"), killed |-> FALSE]
         [] o.kind = "write_fails" ->
              [file |-> FileOf(f.text \o SubSeq(text, 1, o.cut)),
               exc |-> Exc("OSError", "", "json.dump"), killed |-> FALSE]
         [] OTHER ->
              [file |-> FileOf(f.text \o SubSeq(text, 1, o.cut)), exc |-> NoExc,
               killed |-> TRUE]

save_yggdrasil(Y, f, o) ==
    LET text == Encode(Y)
    IN CASE o.kind = "ok" ->
              [file |-> FileOf(text), exc |-> NoExc, killed |-> FALSE]
         [] o.kind = "open_fails" ->
              [file |-> f, exc |-> Exc("OSError", "", "open"), killed |-> FALSE]
         [] o.kind = "write_fails" ->
              [file |-> FileOf(SubSeq(text, 1, o.cut)),
               exc |-> Exc("OSError", "", "json.dump"), killed |-> FALSE]
         [] OTHER ->
              [file |-> FileOf(SubSeq(text, 1, o.cut)), exc |-> NoExc, killed |-> TRUE]

SaveYggdrasil ==
    /\ pc = "imported"
    /\ \E o \in SaveOutcomes(Yggdrasil) :
         LET r == save_yggdrasil(Yggdrasil, file, o)
         IN /\ file' = r.file
            /\ raised' = r.exc
            /\ pc' = IF r.killed THEN "killed" ELSE pc
            /\ last' = Call("save_yggdrasil", <<>>, o.kind)
    /\ ret' = None
    /\ UNCHANGED <<Yggdrasil, adds>>

\* a load_yggdrasil without the assignment of line 145: a missing file
\* leaves Yggdrasil as it is
load_yggdrasil_keep(Y, f) ==
    IF f.exists
    THEN LET d == Decode(f.text)
         IN IF d.ok THEN Res(d.val, NoExc)
            ELSE Res(Y, Exc("JSONDecodeError", "", "json.load"))
    ELSE Res(Y, NoExc)

(***************************************************************************)
(* load_yggdrasil(): the new value of Yggdrasil and the exception raised.  *)
(***************************************************************************)
load_yggdrasil(Y, f) ==
    IF f.exists
    THEN LET d == Decode(f.text)
         IN IF d.ok THEN Res(d.val, NoExc)
            ELSE Res(Y, Exc("JSONDecodeError", "", "json.load"))
    ELSE Res(EmptyDict, NoExc)

\* "roundtrip": the call before was a save_yggdrasil that wrote the whole text
LoadCase(f) ==
    IF ~f.exists THEN "missing"
    ELSE IF last.op = "save_yggdrasil" /\ last.case = "ok" THEN "roundtrip"
    ELSE IF ~Decode(f.text).ok THEN "undecodable"
    ELSE "decoded"

\* called by an importing caller at any time, and by line 208 at start
LoadYggdrasil ==
    /\ pc \in {"imported", "boot"}
    /\ LET r == load_yggdrasil(Yggdrasil, file)
       IN /\ Yggdrasil' = r.val
          /\ raised' = r.exc
          /\ pc' = After(r.exc, "loop")
    /\ last' = Call("load_yggdrasil", <<>>, LoadCase(file))
    /\ ret' = None
    /\ UNCHANGED <<file, adds>>

(***************************************************************************)
(* The Spotify answers (sp.search, sp.artist): a failed request raises.    *)
(***************************************************************************)
Track1 ==
    [name |-> "Rhapsody", artist |-> "Queen", album |-> "Opera", artist_id |-> "q1",
     url |-> "u1", duration_ms |-> 354000, track_number |-> 11]
Track2 ==
    [name |-> "Hysteria", artist |-> "Muse", album |-> "Absolution", artist_id |-> "m1",
     url |-> "u2", duration_ms |-> 227000, track_number |-> 8]

SearchAnswers ==
    { [ok |-> FALSE, items |-> <<>>], [ok |-> TRUE, items |-> <<>>],
      [ok |-> TRUE, items |-> <<Track1>>], [ok |-> TRUE, items |-> <<Track1, Track2>>] }

GenreAnswers ==
    { [ok |-> FALSE, genres |-> <<>>], [ok |-> TRUE, genres |-> <<>>],
      [ok |-> TRUE, genres |-> <<"Rock">>], [ok |-> TRUE, genres |-> <<"Jazz", "Rock">>] }

ProviderError(site) == Exc("SpotifyException", "", site)

\* lines 59-67: the metadata dict of one track
Metadata(track) ==
    PyDict(<< <<"song_name", PyStr(track.name)>>,
              <<"artist", PyStr(track.artist)>>,
              <<"album", PyStr(track.album)>>,
              <<"artist_id", PyStr(track.artist_id)>>,
              <<"spotify_url", PyStr(track.url)>>,
              <<"duration_ms", PyInt(track.duration_ms)>>,
              <<"track_number", PyInt(track.track_number)>> >>)

\* search_song_on_spotify(song_name) on an answer of sp.search
search_song_on_spotify(answer) ==
    IF ~answer.ok THEN Res(<<>>, ProviderError("search_song_on_spotify"))
    ELSE Res([i \in 1..Len(answer.items) |-> Metadata(answer.items[i])], NoExc)

\* get_artist_genre(artist_id) on an answer of sp.artist
get_artist_genre(answer) ==
    IF ~answer.ok THEN Res("", ProviderError("get_artist_genre"))
    ELSE Res(IF Len(answer.genres) > 0 THEN answer.genres[1] ELSE "Unknown", NoExc)

(***************************************************************************)
(* Lines 89-97: the text typed at "Select a number (or 0 to cancel)".      *)
(***************************************************************************)
Tokens == {"0", "1", "2", "3", "-1", "x"}
IntTokens == ("0" :> 0) @@ ("1" :> 1) @@ ("2" :> 2) @@ ("3" :> 3) @@ ("-1" :> (-1))

\* int(choice): ok = FALSE is ValueError
ParseInt(token) ==
    IF token \in DOMAIN IntTokens THEN [ok |-> TRUE, n |-> IntTokens[token]]
    ELSE [ok |-> FALSE, n |-> 0]

\* xs[i] for a Python list and a 0-based index: a negative index counts from
\* the end; ok = FALSE is IndexError
PyIndex(xs, i) ==
    IF 0 <= i /\ i < Len(xs) THEN [ok |-> TRUE, val |-> xs[i + 1]]
    ELSE IF i < 0 /\ -Len(xs) <= i THEN [ok |-> TRUE, val |-> xs[Len(xs) + i + 1]]
    ELSE [ok |-> FALSE, val |-> None]

Select(results, token) ==
    LET c == ParseInt(token)
        m == PyIndex(results, c.n - 1)
    IN IF ~c.ok THEN [status |-> "invalid", val |-> None]                \* ValueError
       ELSE IF c.n = 0 THEN [status |-> "cancelled", val |-> None]       \* line 93
       ELSE IF ~m.ok THEN [status |-> "invalid", val |-> None]           \* IndexError
       ELSE [status |-> "selected", val |-> m.val]

(***************************************************************************)
(* add_song_dynamic(song_name): every outcome one call can have from the   *)
(* catalog Y and the file f, over the answers of Spotify, the text typed   *)
(* and what the environment does to the save.                              *)
(***************************************************************************)
Outcome(Y, f, exc, r, killed, case, path, token, found) ==
    [Y |-> Y, file |-> f, exc |-> exc, ret |-> r, killed |-> killed, case |-> case,
     path |-> path, token |-> token, found |-> found]

\* lines 101-105 with the song stored under "Unknown" before the genre is
\* asked: a failed request leaves that entry behind
AddAndSaveEager(Y, f, metadata, token, found) ==
    UNION { LET g == get_artist_genre(ga)
                path == <<g.val, DictGet(metadata, "artist").v,
                          DictGet(metadata, "album").v, DictGet(metadata, "song_name").v>>
                early == add_song(Y, "Unknown", path[2], path[3], path[4], metadata)
                a == add_song(Y, path[1], path[2], path[3], path[4], metadata)
            IN IF g.exc # NoExc
               THEN { Outcome(early.val, f, g.exc, None, FALSE, "genre_failed", <<>>,
                              token, found) }
               ELSE IF a.exc # NoExc
               THEN { Outcome(a.val, f, a.exc, None, FALSE, "add_failed", path, token, found) }
               ELSE { LET sv == save_yggdrasil(a.val, f, o)
                      IN Outcome(a.val, sv.file, sv.exc,
                                 IF sv.exc = NoExc /\ ~sv.killed THEN metadata ELSE None,
                                 sv.killed,
                                 IF sv.killed THEN "killed"
                                 ELSE IF sv.exc # NoExc THEN "save_failed" ELSE "added",
                                 path, token, found)
                      : o \in SaveOutcomes(a.val) }
          : ga \in GenreAnswers }

\* lines 101-105 with lines 102 and 103 exchanged: the file is written
\* before the song is stored
AddAndSaveSaveFirst(Y, f, metadata, token, found) ==
    UNION { LET g == get_artist_genre(ga)
                path == <<g.val, DictGet(metadata, "artist").v,
                          DictGet(metadata, "album").v, DictGet(metadata, "song_name").v>>
            IN IF g.exc # NoExc
               THEN { Outcome(Y, f, g.exc, None, FALSE, "genre_failed", <<>>, token, found) }
               ELSE { LET sv == save_yggdrasil(Y, f, o)
                          a == add_song(Y, path[1], path[2], path[3], path[4], metadata)
                      IN IF sv.killed
                         THEN Outcome(Y, sv.file, sv.exc, None, TRUE, "killed", path,
                                      token, found)
                         ELSE IF sv.exc # NoExc
                         THEN Outcome(Y, sv.file, sv.exc, None, FALSE, "save_failed", path,
                                      token, found)
                         ELSE IF a.exc # NoExc
                         THEN Outcome(a.val, sv.file, a.exc, None, FALSE, "add_failed", path,
                                      token, found)
                         ELSE Outcome(a.val, sv.file, NoExc, metadata, FALSE, "added", path,
                                      token, found)
                      : o \in SaveOutcomes(Y) }
          : ga \in GenreAnswers }

\* lines 101-105, for the chosen metadata
AddAndSave(Y, f, metadata, token, found) ==
    UNION { LET g == get_artist_genre(ga)
                path == <<g.val, DictGet(metadata, "artist").v,
                          DictGet(metadata, "album").v, DictGet(metadata, "song_name").v>>
                a == add_song(Y, path[1], path[2], path[3], path[4], metadata)
            IN IF g.exc # NoExc
               THEN { Outcome(Y, f, g.exc, None, FALSE, "genre_failed", <<>>, token, found) }
               ELSE IF a.exc # NoExc
               THEN { Outcome(a.val, f, a.exc, None, FALSE, "add_failed", path, token, found) }
               ELSE { LET sv == save_yggdrasil(a.val, f, o)
                      IN Outcome(a.val, sv.file, sv.exc,
                                 IF sv.exc = NoExc /\ ~sv.killed THEN metadata ELSE None,
                                 sv.killed,
                                 IF sv.killed THEN "killed"
                                 ELSE IF sv.exc # NoExc THEN "save_failed" ELSE "added",
                                 path, token, found)
                      : o \in SaveOutcomes(a.val) }
          : ga \in GenreAnswers }

add_song_dynamic(Y, f) ==
    UNION { LET s == search_song_on_spotify(sa)
                results == s.val
                n == Len(results)
            IN IF s.exc # NoExc
               THEN { Outcome(Y, f, s.exc, None, FALSE, "search_failed", <<>>, "", 0) }
               ELSE IF n = 0                                              \* lines 81-82
               THEN { Outcome(Y, f, NoExc, None, FALSE, "no_results", <<>>, "", 0) }
               ELSE IF n > 1                                              \* lines 85-97
               THEN UNION { LET sel == Select(results, token)
                            IN IF sel.status # "selected"
                               THEN { Outcome(Y, f, NoExc, None, FALSE, sel.status, <<>>,
                                              token, n) }
                               ELSE AddAndSave(Y, f, sel.val, token, n)
                          : token \in Tokens }
               ELSE AddAndSave(Y, f, results[1], "", n)                   \* line 99
          : sa \in SearchAnswers }

(***************************************************************************)
(* enter_bragi(), called by the loop of lines 209-213.                     *)
(***************************************************************************)
AttributeError(x) == Exc("AttributeError", x.t, "enter_bragi")

\* the prompts and the lookup of lines 162-166: each prompt lists the keys of
\* the node reached so far, then the typed key is indexed
RECURSIVE Navigate(_, _, _)
Navigate(x, path, i) ==
    IF ~IsDict(x) THEN Res(None, AttributeError(x))
    ELSE LET r == GetItem(x, path[i], "enter_bragi")
         IN IF r.exc # NoExc \/ i = Len(path) THEN r
            ELSE Navigate(r.val, path, i + 1)

\* lines 198-200: metadata.get(...)
Display(metadata) == IF IsDict(metadata) THEN NoExc ELSE AttributeError(metadata)

\* what the user types at the prompts of option 1
TypedPaths ==
    Paths \cup { <<"Jazz", "Queen", "Opera", "Rhapsody">>, <<"Rock", "Muse", "Opera", "Rhapsody">>,
                 <<"Rock", "Queen", "Absolution", "Rhapsody">> }

\* option 1, lines 158-166
EnterBragi1 ==
    /\ pc = "loop"
    /\ IF ~Truthy(Yggdrasil)
       THEN /\ raised' = NoExc
            /\ ret' = None
            /\ last' = Call("option1", <<>>, "empty")
            /\ pc' = "cont"
       ELSE \E path \in TypedPaths :
              LET r == Navigate(Yggdrasil, path, 1)
                  e == IF r.exc # NoExc THEN r.exc ELSE Display(r.val)
              IN /\ raised' = e
                 /\ ret' = r.val
                 /\ last' = CallFull("option1", path,
                                     IF e = NoExc THEN "found" ELSE "error",
                                     IF e = NoExc THEN path ELSE <<>>, "", 0)
                 /\ pc' = After(e, "cont")
    /\ UNCHANGED <<Yggdrasil, file, adds>>

\* lines 172-176: every path the four samplers can walk, or the exception
RECURSIVE RandomDescent(_, _)
RandomDescent(Y, prefix) ==
    LET c == RandomChoices(Y, prefix)
    IN IF c.exc # NoExc THEN { [path |-> prefix, val |-> None, exc |-> c.exc] }
       ELSE IF Len(prefix) = 3
       THEN { LET r == Lookup(Y, Append(prefix, k), "enter_bragi")
              IN [path |-> Append(prefix, k), val |-> r.val, exc |-> r.exc]
              : k \in c.keys }
       ELSE UNION { RandomDescent(Y, Append(prefix, k)) : k \in c.keys }

\* option 2, lines 168-176
EnterBragi2 ==
    /\ pc = "loop"
    /\ IF ~Truthy(Yggdrasil)
       THEN /\ raised' = NoExc
            /\ ret' = None
            /\ last' = Call("option2", <<>>, "empty")
            /\ pc' = "cont"
       ELSE \E d \in RandomDescent(Yggdrasil, <<>>) :
              LET e == IF d.exc # NoExc THEN d.exc ELSE Display(d.val)
              IN /\ raised' = e
                 /\ ret' = d.val
                 /\ last' = CallFull("option2", d.path,
                                     IF e = NoExc THEN "found" ELSE "error",
                                     IF e = NoExc THEN d.path ELSE <<>>, "", 0)
                 /\ pc' = After(e, "cont")
    /\ UNCHANGED <<Yggdrasil, file, adds>>

\* option 3, lines 178-186: add_song_dynamic, then the genre is asked again
EnterBragi3 ==
    /\ pc = "loop"
    /\ adds < MaxAdds
    /\ \E o \in add_song_dynamic(Yggdrasil, file) :
         /\ Yggdrasil' = o.Y
         /\ file' = o.file
         /\ adds' = IF o.path # <<>> THEN adds + 1 ELSE adds
         /\ IF o.killed \/ o.exc # NoExc \/ ~Truthy(o.ret)
            THEN /\ raised' = o.exc
                 /\ ret' = o.ret
                 /\ last' = CallFull("option3", o.path, o.case, <<>>, o.token, o.found)
                 /\ pc' = IF o.killed THEN "killed" ELSE After(o.exc, "cont")
            ELSE \E ga \in GenreAnswers :
                   LET g == get_artist_genre(ga)                     \* line 183
                   IN /\ raised' = g.exc
                      /\ ret' = o.ret
                      /\ last' = CallFull("option3", o.path, o.case,
                                          IF g.exc = NoExc
                                          THEN <<g.val, o.path[2], o.path[3], o.path[4]>>
                                          ELSE <<>>,
                                          o.token, o.found)
                      /\ pc' = After(g.exc, "cont")

\* lines 188-190
EnterBragiInvalid ==
    /\ pc = "loop"
    /\ pc' = "cont"
    /\ raised' = NoExc
    /\ ret' = None
    /\ last' = Call("invalid_option", <<>>, "")
    /\ UNCHANGED <<Yggdrasil, file, adds>>

(***************************************************************************)
(* Lines 211-214: continue, or leave the loop and save.                    *)
(***************************************************************************)
Continue ==
    /\ pc = "cont"
    /\ pc' = "loop"
    /\ UNCHANGED <<Yggdrasil, file, raised, ret, last, adds>>

Shutdown ==
    /\ pc = "cont"
    /\ \E o \in SaveOutcomes(Yggdrasil) :
         LET r == save_yggdrasil(Yggdrasil, file, o)
         IN /\ file' = r.file
            /\ raised' = r.exc
            /\ pc' = IF r.killed THEN "killed" ELSE After(r.exc, "exit")
            /\ last' = Call("shutdown", <<>>, o.kind)
    /\ ret' = None
    /\ UNCHANGED <<Yggdrasil, adds>>

Next ==
    \/ AddSong
    \/ RandomGenre
    \/ RandomArtist
    \/ RandomAlbum
    \/ RandomSong
    \/ SaveYggdrasil
    \/ LoadYggdrasil
    \/ EnterBragi1
    \/ EnterBragi2
    \/ EnterBragi3
    \/ EnterBragiInvalid
    \/ Continue
    \/ Shutdown

Spec == Init /\ [][Next]_vars

(***************************************************************************)
(* The program alone with its file: the file is missing, or it is what an  *)
(* earlier run wrote of a catalog built by add_song, whole or cut short.   *)
(***************************************************************************)
OwnFiles ==
    { NoFile, FileOf(SampleText), FileOf(SubSeq(SampleText, 1, Len(SampleText) - 1)) }

InitOwnFiles ==
    /\ Init
    /\ file \in OwnFiles

SpecOwnFiles == InitOwnFiles /\ [][Next]_vars

(***************************************************************************)
(* Vocabulary of the properties.                                           *)
(***************************************************************************)
\* every key sequence (of 1..depth keys) present in x, descending through dicts
RECURSIVE KeyPathsFrom(_, _, _)
KeyPathsFrom(x, prefix, depth) ==
    IF ~IsDict(x) \/ depth = 0 THEN {}
    ELSE UNION { { Append(prefix, x.v[i][1]) }
                 \cup KeyPathsFrom(x.v[i][2], Append(prefix, x.v[i][1]), depth - 1)
               : i \in 1..Len(x.v) }
KeyPaths(Y) == KeyPathsFrom(Y, <<>>, 4)
\* the (genre, artist, album, song) paths present
SongPaths(Y) == { q \in KeyPaths(Y) : Len(q) = 4 }

\* the key set of the node at a prefix
KeysAt(Y, prefix) ==
    { q[Len(q)] : q \in { r \in KeyPaths(Y) : Len(r) = Len(prefix) + 1
                                              /\ SubSeq(r, 1, Len(prefix)) = prefix } }

\* four nested mappings, then a flat attribute mapping
RECURSIVE IsTreeFrom(_, _)
IsTreeFrom(x, depth) ==
    /\ IsDict(x)
    /\ \A i \in 1..Len(x.v) :
         IF depth = 0 THEN ~(x.v[i][2].t \in {"dict", "list"})
         ELSE IsTreeFrom(x.v[i][2], depth - 1)
IsTree(Y) == IsTreeFrom(Y, 4)

\* no dict of x holds a key twice
RECURSIVE NoDuplicateKeys(_)
NoDuplicateKeys(x) ==
    IsDict(x) =>
      /\ \A i, j \in 1..Len(x.v) : x.v[i][1] = x.v[j][1] => i = j
      /\ \A i \in 1..Len(x.v) : NoDuplicateKeys(x.v[i][2])

\* equal without regard to the order of keys
RECURSIVE SameValue(_, _)
SameValue(a, b) ==
    /\ a.t = b.t
    /\ CASE a.t = "dict" ->
              /\ Len(a.v) = Len(b.v)
              /\ KeySet(a) = KeySet(b)
              /\ \A k \in KeySet(a) : SameValue(DictGet(a, k), DictGet(b, k))
         [] a.t = "list" ->
              /\ Len(a.v) = Len(b.v)
              /\ \A i \in 1..Len(a.v) : SameValue(a.v[i], b.v[i])
         [] OTHER -> a.v = b.v

Samplers == {"random_genre", "random_artist", "random_album", "random_song"}

\* the record add_song stores for a metadata argument
Stored(metadata) == IF metadata = None THEN EmptyDict ELSE metadata

(***************************************************************************)
(* C1  Round trip.  A load_yggdrasil that directly follows a save_yggdrasil *)
(* that wrote its whole text raises nothing and leaves a catalog equal to  *)
(* the one saved: the same keys at every prefix and the same attributes at *)
(* every leaf, whatever the order.                                         *)
(***************************************************************************)
C1_RoundTrip ==
    [][ (last'.op = "load_yggdrasil" /\ last'.case = "roundtrip")
        => /\ raised' = NoExc
           /\ SameValue(Yggdrasil', Yggdrasil)
           /\ KeyPaths(Yggdrasil') = KeyPaths(Yggdrasil) ]_vars

\* a catalog of two songs built by add_song has been saved and loaded back
C1_Witness ==
    /\ last.op = "load_yggdrasil" /\ last.case = "roundtrip"
    /\ adds = 2
    /\ Cardinality(SongPaths(Yggdrasil)) = 2

(***************************************************************************)
(* C2  Atomic save.  When the process is ended during a save, the file     *)
(* holds what it held before the save or the whole new text.               *)
(***************************************************************************)
C2_AtomicSave ==
    [][ pc' = "killed"
        => \/ file' = file
           \/ file' = FileOf(Encode(Yggdrasil')) ]_vars

(***************************************************************************)
(* C3  Path creation.  In a catalog that is a tree, add_song on a path not *)
(* present raises nothing; afterwards the lookup of the path returns the   *)
(* inserted record and each key of the path is in the key set of the node  *)
(* above it.                                                               *)
(***************************************************************************)
C3_PathCreation ==
    [][ (last'.op = "add_song" /\ IsTree(Yggdrasil)
         /\ ~(last'.path \in SongPaths(Yggdrasil)))
        => /\ raised' = NoExc
           /\ Lookup(Yggdrasil', last'.path, "") = Res(Stored(last'.record), NoExc)
           /\ \A i \in 1..4 :
                last'.path[i] \in KeysAt(Yggdrasil', SubSeq(last'.path, 1, i - 1)) ]_vars

\* add_song has created a path beside an existing one
C3_Witness ==
    /\ last.op = "add_song" /\ last.case = "new" /\ raised = NoExc
    /\ Cardinality(SongPaths(Yggdrasil)) = 2
    /\ last.path \in SongPaths(Yggdrasil)

(***************************************************************************)
(* C4  Overwrite.  In a catalog that is a tree, add_song on a path that is *)
(* present with another record leaves the new record at the path, the same *)
(* key sequences at every level, and no key twice in any node.             *)
(***************************************************************************)
C4_Overwrite ==
    [][ (last'.op = "add_song" /\ IsTree(Yggdrasil)
         /\ last'.path \in SongPaths(Yggdrasil)
         /\ Lookup(Yggdrasil, last'.path, "").val # Stored(last'.record))
        => /\ raised' = NoExc
           /\ Lookup(Yggdrasil', last'.path, "") = Res(Stored(last'.record), NoExc)
           /\ KeyPaths(Yggdrasil') = KeyPaths(Yggdrasil)
           /\ NoDuplicateKeys(Yggdrasil') ]_vars

\* two add_song calls, the second on the path of the first with another
\* record: no file ever existed, so the one path is the first call's
C4_Witness ==
    /\ last.op = "add_song" /\ last.case = "overwrite" /\ raised = NoExc
    /\ adds = 2
    /\ file = NoFile
    /\ SongPaths(Yggdrasil) = {last.path}

(***************************************************************************)
(* C5  Malformed file.  load_yggdrasil on an existing file that does not   *)
(* hold a catalog (text that does not decode, or a document of another     *)
(* shape) raises the decode error and leaves Yggdrasil as it was.          *)
(***************************************************************************)
HoldsCatalog(f) == Decode(f.text).ok /\ IsTree(Decode(f.text).val)

C5_MalformedFile ==
    [][ (last'.op = "load_yggdrasil" /\ file.exists /\ ~HoldsCatalog(file))
        => /\ raised'.exc = "JSONDecodeError"
           /\ Yggdrasil' = Yggdrasil ]_vars

(***************************************************************************)
(* C6  Sampling an empty node.  A sampler whose node has no key raises the *)
(* empty-collection error from a check of its own, made before sampling,   *)
(* and leaves the catalog as it was; option 2 on an empty catalog raises   *)
(* it too.                                                                 *)
(***************************************************************************)
EmptyNode(Y, prefix) ==
    LET n == Descend(Y, prefix, 1, "")
    IN n.exc = NoExc /\ IsDict(n.val) /\ Len(n.val.v) = 0

C6_EmptySample ==
    [][ /\ (last'.op \in Samplers /\ EmptyNode(Yggdrasil, last'.path))
           => /\ raised'.exc = "IndexError"
              /\ raised'.site = last'.op
              /\ Yggdrasil' = Yggdrasil
        /\ (pc = "loop" /\ last'.op = "option2" /\ EmptyNode(Yggdrasil, <<>>))
           => /\ raised'.exc = "IndexError"
              /\ Yggdrasil' = Yggdrasil ]_vars

(***************************************************************************)
(* C7  Sampling validity.  A sampler called with a prefix whose node has   *)
(* keys raises nothing, returns one of the keys of that node and leaves    *)
(* the catalog as it was.                                                  *)
(***************************************************************************)
NonEmptyNode(Y, prefix) ==
    LET n == Descend(Y, prefix, 1, "")
    IN n.exc = NoExc /\ IsDict(n.val) /\ Len(n.val.v) > 0

C7_SamplingValidity ==
    [][ (last'.op \in Samplers /\ NonEmptyNode(Yggdrasil, last'.path))
        => /\ raised' = NoExc
           /\ ret'.t = "str"
           /\ ret'.v \in KeysAt(Yggdrasil', last'.path)
           /\ Yggdrasil' = Yggdrasil ]_vars

\* random_album has returned one of two albums
C7_Witness ==
    /\ last.op = "random_album" /\ last.case = "ok"
    /\ ret.t = "str"
    /\ Cardinality(KeysAt(Yggdrasil, last.path)) = 2

(***************************************************************************)
(* C8  Lookup of a missing path.  In a catalog that is a tree, the manual  *)
(* navigation of option 1 on a typed path with an absent key raises        *)
(* KeyError naming the first absent key in genre, artist, album, song      *)
(* order, and leaves the catalog as it was.                                *)
(***************************************************************************)
FirstMissing(Y, path) ==
    path[CHOOSE i \in 1..Len(path) :
           /\ ~(SubSeq(path, 1, i) \in KeyPaths(Y))
           /\ \A j \in 1..(i - 1) : SubSeq(path, 1, j) \in KeyPaths(Y)]

C8_LookupMissing ==
    [][ (pc = "loop" /\ last'.op = "option1" /\ IsTree(Yggdrasil)
         /\ last'.path # <<>> /\ ~(last'.path \in SongPaths(Yggdrasil)))
        => /\ raised'.exc = "KeyError"
           /\ raised'.arg = FirstMissing(Yggdrasil, last'.path)
           /\ Yggdrasil' = Yggdrasil ]_vars

\* the genre and the artist typed exist, the album does not
C8_Witness ==
    /\ last.op = "option1" /\ raised.exc = "KeyError"
    /\ Len(last.path) = 4
    /\ raised.arg = last.path[3]
    /\ SubSeq(last.path, 1, 2) \in KeyPaths(Yggdrasil)

(***************************************************************************)
(* C9  No removal.  As claimed: a path present in the catalog is present   *)
(* after every step.                                                       *)
(***************************************************************************)
C9_NoRemoval ==
    [][ SongPaths(Yggdrasil) \subseteq SongPaths(Yggdrasil') ]_vars

\* C9 as amended: a path present in the catalog is present after every step
\* that is not a load_yggdrasil, which replaces the whole catalog
C9_NoRemovalButLoad ==
    [][ last'.op # "load_yggdrasil"
        => \/ Yggdrasil' = Yggdrasil
           \/ KeyPaths(Yggdrasil) \subseteq KeyPaths(Yggdrasil') ]_vars

\* an add_song has kept the path that was there before it
C9_Witness ==
    /\ last.op = "add_song" /\ last.case = "new"
    /\ adds = 2
    /\ \E q \in SongPaths(Yggdrasil) : q # last.path

(***************************************************************************)
(* C10  Save failure is not fatal.  When the save of option 3 raises       *)
(* OSError, the catalog keeps its entries and the loop of lines 209-213    *)
(* goes on.                                                                *)
(***************************************************************************)
C10_SaveFailureNonFatal ==
    [][ (last'.op = "option3" /\ last'.case = "save_failed")
        => /\ pc' = "cont"
           /\ KeyPaths(Yggdrasil) \subseteq KeyPaths(Yggdrasil') ]_vars

(***************************************************************************)
(* C11  add_song never fails.  In every catalog the program can hold, the  *)
(* one installed by a load_yggdrasil of an existing file included,         *)
(* add_song raises nothing and leaves its record at the path.              *)
(***************************************************************************)
C11_AddNeverFails ==
    [][ last'.op = "add_song"
        => /\ raised' = NoExc
           /\ Lookup(Yggdrasil', last'.path, "") = Res(Stored(last'.record), NoExc) ]_vars

(***************************************************************************)
(* C12  Cold start.  A load_yggdrasil when the file does not exist raises  *)
(* nothing and leaves the empty dict in Yggdrasil, whatever it held.       *)
(* load_yggdrasil does not touch the file, so the state after the call     *)
(* tells that the file was missing.                                        *)
(***************************************************************************)
C12_ColdStart ==
    (last.op = "load_yggdrasil" /\ ~file.exists)
    => /\ raised = NoExc
       /\ Yggdrasil = EmptyDict

\* two add_song calls filled the catalog, no file was ever written, and the
\* load has emptied it
C12_Witness ==
    /\ last.op = "load_yggdrasil" /\ last.case = "missing"
    /\ pc = "imported"
    /\ adds = 2
    /\ Yggdrasil = EmptyDict

(***************************************************************************)
(* C13  Disambiguation by 1-based index.  When the search of option 3      *)
(* finds n > 1 tracks, the text typed selects a track only when it is an   *)
(* integer in 1..n, and the track stored is then the one at that position; *)
(* any other text (0, not an integer, above n, negative) stores nothing,   *)
(* saves nothing and leaves the catalog as it was.                         *)
(***************************************************************************)
C13_Disambiguation ==
    [][ (last'.op = "option3" /\ last'.found > 1)
        => LET c == ParseInt(last'.token)
           IN IF c.ok /\ 1 <= c.n /\ c.n <= last'.found
              THEN last'.case \in {"added", "save_failed", "killed"}
                   => \E sa \in SearchAnswers :
                        /\ Len(sa.items) = last'.found
                        /\ Lookup(Yggdrasil', last'.path, "")
                             = Res(Metadata(sa.items[c.n]), NoExc)
              ELSE /\ Yggdrasil' = Yggdrasil
                   /\ file' = file ]_vars

(***************************************************************************)
(* C14  Aborted populate leaves no trace.  When add_song_dynamic finds no  *)
(* track, or Spotify fails during the search or during the genre request   *)
(* of line 101, Yggdrasil and the file are after option 3 what they were   *)
(* before it.                                                              *)
(***************************************************************************)
C14_AbortedPopulate ==
    [][ (last'.op = "option3"
         /\ last'.case \in {"no_results", "search_failed", "genre_failed"})
        => /\ Yggdrasil' = Yggdrasil
           /\ file' = file ]_vars

\* a second option 3 has failed at the genre request: the song of the first
\* is still the whole catalog and the whole file
C14_Witness ==
    /\ last.op = "option3" /\ last.case = "genre_failed"
    /\ raised.exc = "SpotifyException"
    /\ Cardinality(SongPaths(Yggdrasil)) = 1
    /\ file = FileOf(Encode(Yggdrasil))

(***************************************************************************)
(* C15  Populate ordering and persistence.  When add_song_dynamic has      *)
(* returned a metadata dict, the genre was resolved, the song stored under *)
(* (genre, artist, album, song_name) and the file written, in this order:  *)
(* the file decodes to a catalog equal to Yggdrasil, which holds the       *)
(* returned dict at that path.  After the save of line 214 has returned,   *)
(* the file decodes to Yggdrasil too.                                      *)
(***************************************************************************)
DocumentIsCatalog ==
    /\ file.exists
    /\ LET d == Decode(file.text)
       IN d.ok /\ SameValue(d.val, Yggdrasil)

C15_PopulatePersistence ==
    /\ (last.op = "option3" /\ last.case = "added")
       => /\ DocumentIsCatalog
          /\ Lookup(Yggdrasil, last.path, "") = Res(ret, NoExc)
          /\ SubSeq(last.path, 2, 4) = <<DictGet(ret, "artist").v, DictGet(ret, "album").v,
                                         DictGet(ret, "song_name").v>>
    /\ pc = "exit" => DocumentIsCatalog

\* two option 3 calls have each stored a song, and the user has left the loop
C15_Witness ==
    /\ pc = "exit" /\ last.op = "shutdown"
    /\ adds = 2
    /\ Cardinality(SongPaths(Yggdrasil)) = 2
    /\ file = FileOf(Encode(Yggdrasil))

(***************************************************************************)
(* C16  Single genre resolution per added song.  The path option 3 prints  *)
(* for a song it has stored is the path the song was stored at, and the    *)
(* lookup of the printed path returns the record printed, whatever the     *)
(* answers of Spotify.                                                     *)
(***************************************************************************)
C16_SingleGenre ==
    (last.op = "option3" /\ last.shown # <<>>)
    => /\ last.shown = last.path
       /\ Lookup(Yggdrasil, last.shown, "") = Res(ret, NoExc)

(***************************************************************************)
(* C17  No empty interior node.  In a catalog built from the empty dict by *)
(* add_song and by saving and loading such catalogs, every genre holds an  *)
(* artist, every artist an album and every album a song; so the random     *)
(* descent of option 2 on a catalog that is not empty raises nothing and   *)
(* ends at a path whose lookup returns the record shown.                   *)
(***************************************************************************)
NoEmptyInterior(Y) ==
    /\ IsTree(Y)
    /\ \A q \in KeyPaths(Y) : Len(q) < 4 => KeysAt(Y, q) # {}

C17_NoEmptyInterior ==
    /\ NoEmptyInterior(Yggdrasil)
    /\ (last.op = "option2" /\ Truthy(Yggdrasil))
       => /\ raised = NoExc
          /\ last.shown \in SongPaths(Yggdrasil)
          /\ Lookup(Yggdrasil, last.shown, "") = Res(ret, NoExc)

\* the catalog of an earlier run was loaded, option 3 has stored a second
\* song, and option 2 has walked to one of the two
C17_Witness ==
    /\ last.op = "option2" /\ last.case = "found"
    /\ file.exists /\ adds = 1
    /\ Cardinality(SongPaths(Yggdrasil)) = 2
    /\ last.shown \in SongPaths(Yggdrasil)

(***************************************************************************)
(* C18  Frame of add_song.  A call of add_song on a path p, made by a      *)
(* caller or by option 3, changes the leaf at p only: every other path     *)
(* present before is present after with the record it had, no key is       *)
(* removed, and each key sequence that appears is a prefix of p.           *)
(***************************************************************************)
C18_FrameOfAdd ==
    [][ (last'.op \in {"add_song", "option3"} /\ last'.path # <<>>)
        => \/ Yggdrasil' = Yggdrasil
           \/ /\ \A q \in SongPaths(Yggdrasil) \ {last'.path} :
                   /\ q \in SongPaths(Yggdrasil')
                   /\ Lookup(Yggdrasil', q, "") = Lookup(Yggdrasil, q, "")
              /\ KeyPaths(Yggdrasil) \subseteq KeyPaths(Yggdrasil')
              /\ KeyPaths(Yggdrasil') \ KeyPaths(Yggdrasil)
                   \subseteq { SubSeq(last'.path, 1, i) : i \in 1..4 } ]_vars

\* add_song has replaced the record of one song of an album and the other
\* song of the album is still there
C18_Witness ==
    /\ last.op = "add_song" /\ last.case = "overwrite" /\ raised = NoExc
    /\ \E q \in SongPaths(Yggdrasil) :
         /\ q # last.path
         /\ SubSeq(q, 1, 3) = SubSeq(last.path, 1, 3)

====
